---- MODULE Spec2Model ----
(***************************************************************************)
(* tenant_bootstrap: provisioning of a tenant site (setup.py) and the      *)
(* enforcement of plan quotas on document saves (usage_limits.py).         *)
(*                                                                         *)
(* Every entry point and every validator is an operator computed the way   *)
(* its code computes it, from the persisted state it reads to the state    *)
(* it leaves and the value it returns; the actions apply these operators   *)
(* to inputs drawn from bounded sets.  One action is one request: the      *)
(* host framework runs requests and jobs of a site one at a time.          *)
(*                                                                         *)
(* Calls into the host framework (cache, database, file system) can        *)
(* raise.  An action therefore takes, besides the call's arguments, the    *)
(* name of the framework call that raises during it ("none": no call       *)
(* raises).  Database writes are kept as soon as they are made: the        *)
(* entry points of setup.py catch every exception and return normally,     *)
(* and the job runner commits the open transaction on a normal return.     *)
(***************************************************************************)
EXTENDS Integers, FiniteSets, Sequences, TLC

\* Largest quota value a plan carries in the model.
MaxLimit == 1

\* Number of document names per doctype, and the cap on the number of
\* Customer, Supplier, Company, User and Sales Invoice records together.
MaxDocs == 2

VARIABLES
    cache,          \* the site's cache: key -> value
    siteConfig,     \* site_config.json, as the JSON object it holds
    users,          \* User records: name -> [enabled, user_type, roles]
    auth,           \* stored passwords: user name -> password
    customers,      \* names of the Customer records
    suppliers,      \* names of the Supplier records
    companies,      \* names of the Company records
    invoices,       \* Sales Invoice records: name -> [docstatus, posting_date]
    today,          \* the current date
    singles,        \* single doctypes: doctype -> its fields
    installedApps,  \* Installed Application rows: app_name -> is_setup_complete
    defaults,       \* frappe.db defaults: key -> value
    warehouseTypes, \* names of the Warehouse Type records
    fiscalYears,    \* names of the Fiscal Year records
    synced,         \* history: the limits of the last successful sync_plan_limits
    last            \* the last request: [op, arg, ret], and for an entry point
                    \* the call that raised in it and what it printed

vars == <<cache, siteConfig, users, auth, customers, suppliers, companies,
          invoices, today, singles, installedApps, defaults, warehouseTypes,
          fiscalYears, synced, last>>

quotaVars == <<cache, siteConfig, synced>>
userVars == <<users, auth>>
partyVars == <<customers, suppliers, companies>>
invoiceVars == <<invoices, today>>
setupVars == <<singles, installedApps, defaults, warehouseTypes, fiscalYears>>

-----------------------------------------------------------------------------
(* Python values *)

\* None and the empty dict: both falsy, both without keys.
EmptyDict == <<>>

\* Truth value of a dict (or None).
Truthy(d) == DOMAIN d # {}

\* dict.get(key, default)
DictGet(d, key, default) == IF key \in DOMAIN d THEN d[key] ELSE default

\* d[key] = value on a dict of string keys
DictSet(d, key, value) ==
    [k \in DOMAIN d \cup {key} |-> IF k = key THEN value ELSE d[k]]

-----------------------------------------------------------------------------
(* usage_limits.py: the plan limits *)

LIMITS_CACHE_KEY == "saas_plan_limits"

LimitKeys == {"max_users", "max_customers", "max_suppliers", "max_companies",
              "max_invoices_per_month", "max_storage_gb"}

Digits == <<"0", "1", "2", "3", "4", "5", "6", "7", "8", "9">>

\* An argument of sync_plan_limits that the caller left out: the default 0.
ARG_DEFAULT == "(default 0)"

\* The arguments arrive as request parameters: strings.
ArgValues == {ARG_DEFAULT, "", "abc"} \cup {Digits[n + 1] : n \in 0..MaxLimit}

\* `x` in `... if x else 0`: the default 0 and the empty string are falsy.
ArgTruthy(v) == v \notin {ARG_DEFAULT, ""}

IsNumeral(v) == \E i \in DOMAIN Digits : Digits[i] = v

\* int(v), float(v) of a numeral
ParseNumber(v) == (CHOOSE i \in DOMAIN Digits : Digits[i] = v) - 1

\* int(v) and float(v) raise ValueError on anything else.
ConversionRaises(args) ==
    \E k \in LimitKeys : ArgTruthy(args[k]) /\ ~IsNumeral(args[k])

\* The dict sync_plan_limits builds: `int(x) if x else 0` for each key.
NormaliseLimits(args) ==
    [k \in LimitKeys |-> IF ArgTruthy(args[k]) THEN ParseNumber(args[k]) ELSE 0]

\* The calls made in the model: one argument given and the others left at
\* their default, or all given the same value.
PlanArgs ==
    {[k \in LimitKeys |-> IF k = key THEN v ELSE ARG_DEFAULT] :
        key \in LimitKeys, v \in ArgValues}
    \cup {[k \in LimitKeys |-> v] : v \in ArgValues}

\* frappe.cache().get_value(key): None when the key is not cached.
cache_get_value(c, key) == DictGet(c, key, EmptyDict)

\* frappe.cache().set_value(key, value)
cache_set_value(c, key, value) == DictSet(c, key, value)

\* frappe.conf: site_config.json as loaded when the request started.
conf_get(conf, key, default) == DictGet(conf, key, default)

\* get_plan_limits: the limits it returns.
get_plan_limits(c, conf) ==
    LET cached == cache_get_value(c, LIMITS_CACHE_KEY)
        limits == IF ~Truthy(cached)
                  THEN conf_get(conf, "saas_plan_limits", EmptyDict)
                  ELSE cached
    IN  IF Truthy(limits) THEN limits ELSE EmptyDict

\* get_plan_limits: the cache it leaves (a value found in the site config is
\* cached).
get_plan_limits_cache(c, conf) ==
    LET cached == cache_get_value(c, LIMITS_CACHE_KEY)
        fromConf == conf_get(conf, "saas_plan_limits", EmptyDict)
    IN  IF ~Truthy(cached) /\ Truthy(fromConf)
        THEN cache_set_value(c, LIMITS_CACHE_KEY, fromConf)
        ELSE c

\* limits.get(key, 0)
LimitOf(limits, key) == DictGet(limits, key, 0)

\* The framework calls of set_plan_limits that can raise.
SyncFaults == {"none", "cache_set", "config_read", "config_write"}

\* set_plan_limits: the site config it leaves.  A failure to read or write
\* the file is logged and swallowed; the file is then left as it was.
set_plan_limits_config(conf, limits, fault) ==
    IF fault \in {"config_read", "config_write"}
    THEN conf
    ELSE DictSet(conf, "saas_plan_limits", limits)

\* set_plan_limits: the cache it leaves.
set_plan_limits_cache(c, limits) == cache_set_value(c, LIMITS_CACHE_KEY, limits)

\* sync_plan_limits(args) with `fault` raising: [cache, conf, ret]
sync_plan_limits(c, conf, args, fault) ==
    IF ConversionRaises(args)
    THEN [cache |-> c, conf |-> conf,
          ret |-> [raised |-> FALSE, success |-> FALSE, error |-> "ValueError"]]
    ELSE IF fault = "cache_set"
    THEN [cache |-> c, conf |-> conf,
          ret |-> [raised |-> FALSE, success |-> FALSE, error |-> "cache_set"]]
    ELSE LET limits == NormaliseLimits(args)
         IN  [cache |-> set_plan_limits_cache(c, limits),
              conf |-> set_plan_limits_config(conf, limits, fault),
              ret |-> [raised |-> FALSE, success |-> TRUE,
                       message |-> "Plan limits updated", limits |-> limits]]

\* The framework calls of get_plan_limits that can raise.
GetFaults == {"none", "cache_get", "cache_set"}

\* Whether get_plan_limits raises: its cache calls are not guarded.
get_plan_limits_raises(c, conf, fault) ==
    \/ fault = "cache_get"
    \/ /\ fault = "cache_set"
       /\ get_plan_limits_cache(c, conf) # c

\* get_current_limits() with `fault` raising: [cache, ret]
get_current_limits(c, conf, fault) ==
    IF get_plan_limits_raises(c, conf, fault)
    THEN [cache |-> c, ret |-> [raised |-> TRUE, error |-> fault]]
    ELSE [cache |-> get_plan_limits_cache(c, conf),
          ret |-> [raised |-> FALSE, success |-> TRUE,
                   limits |-> get_plan_limits(c, conf)]]

-----------------------------------------------------------------------------
(* usage_limits.py: the validators *)

SYSTEM_USER == "System User"
WEBSITE_USER == "Website User"
UserTypes == {SYSTEM_USER, WEBSITE_USER}

\* The names validate_user_limit skips and never counts.
BuiltinUsers == {"Administrator", "Guest"}

AllEmails == <<"ann@tenant.io", "bob@tenant.io", "cyd@tenant.io",
               "dee@tenant.io", "eve@tenant.io">>
Emails == {AllEmails[i] : i \in 1..MaxDocs}
UserNames == BuiltinUsers \cup Emails

AllCompanyNames == <<"Acme", "Globex", "Initech", "Hooli", "Umbrella">>
CompanyNames == {AllCompanyNames[i] : i \in 1..MaxDocs}

\* Names of the Customer, Supplier and Sales Invoice documents.
DocNames == 1..MaxDocs

\* Dates are <<month, day>>; a month runs from its first to its last day.
MonthDays == {1, 28}
Dates == {<<1, 1>>, <<1, 28>>, <<2, 1>>}

DateLE(a, b) == a[1] < b[1] \/ (a[1] = b[1] /\ a[2] <= b[2])

\* frappe.utils.get_first_day, get_last_day
get_first_day(date) ==
    <<date[1], CHOOSE d \in MonthDays : \A e \in MonthDays : d <= e>>
get_last_day(date) ==
    <<date[1], CHOOSE d \in MonthDays : \A e \in MonthDays : e <= d>>

\* validate_user_limit gets past its two early returns and reads the limits.
validate_user_limit_reads(doc) ==
    doc.user_type = SYSTEM_USER /\ doc.name \notin BuiltinUsers

\* frappe.db.count("User", enabled, System User, name not in [..., doc.name])
count_users(us, doc) ==
    Cardinality({n \in DOMAIN us :
                    /\ us[n].enabled = 1
                    /\ us[n].user_type = SYSTEM_USER
                    /\ n \notin {"Administrator", "Guest", doc.name}})

\* validate_user_limit with the count compared by > instead of >=.
validate_user_limit_gt(doc, limits, us) ==
    /\ doc.user_type = SYSTEM_USER
    /\ doc.name \notin BuiltinUsers
    /\ LimitOf(limits, "max_users") # 0
    /\ count_users(us, doc) > LimitOf(limits, "max_users")

\* validate_user_limit raises (frappe.throw).
validate_user_limit(doc, limits, us) ==
    /\ doc.user_type = SYSTEM_USER
    /\ doc.name \notin BuiltinUsers
    /\ LimitOf(limits, "max_users") # 0
    /\ count_users(us, doc) >= LimitOf(limits, "max_users")

\* The count without the name filter: an updated document counts itself.
count_others_unfiltered(names, doc) == Cardinality(names)

\* frappe.db.count(doctype, filters) with the name filter the three party
\* validators build: {} for a new document, name != doc.name otherwise.
count_others(names, doc) ==
    Cardinality({n \in names : doc.is_new \/ n # doc.name})

\* validate_customer_limit raises.
validate_customer_limit(doc, limits, names) ==
    /\ LimitOf(limits, "max_customers") # 0
    /\ count_others(names, doc) >= LimitOf(limits, "max_customers")

\* validate_supplier_limit without its `if not max_suppliers: return`.
validate_supplier_limit_unguarded(doc, limits, names) ==
    count_others(names, doc) >= LimitOf(limits, "max_suppliers")

\* validate_supplier_limit raises.
validate_supplier_limit(doc, limits, names) ==
    /\ LimitOf(limits, "max_suppliers") # 0
    /\ count_others(names, doc) >= LimitOf(limits, "max_suppliers")

\* validate_company_limit raises.
validate_company_limit(doc, limits, names) ==
    /\ LimitOf(limits, "max_companies") # 0
    /\ count_others(names, doc) >= LimitOf(limits, "max_companies")

\* The count without the posting_date filter.
count_invoices_any_month(inv, doc, now) ==
    Cardinality({n \in DOMAIN inv : inv[n].docstatus = 1 /\ n # doc.name})

\* frappe.db.count("Sales Invoice", docstatus 1, posting_date between the
\* first and last day of today's month, name != doc.name)
count_invoices(inv, doc, now) ==
    Cardinality({n \in DOMAIN inv :
                    /\ inv[n].docstatus = 1
                    /\ DateLE(get_first_day(now), inv[n].posting_date)
                    /\ DateLE(inv[n].posting_date, get_last_day(now))
                    /\ n # doc.name})

\* validate_invoice_limit raises.
validate_invoice_limit(doc, limits, inv, now) ==
    /\ doc.docstatus = 1
    /\ LimitOf(limits, "max_invoices_per_month") # 0
    /\ count_invoices(inv, doc, now) >= LimitOf(limits, "max_invoices_per_month")

\* Number of records the saves of the model have created.
DbSize ==
    Cardinality(DOMAIN users \ BuiltinUsers) + Cardinality(customers)
    + Cardinality(suppliers) + Cardinality(companies)
    + Cardinality(DOMAIN invoices)

\* A save may add a record while the database holds fewer than MaxDocs.
MayStore(isNew, raised) == (isNew /\ ~raised) => DbSize < MaxDocs

-----------------------------------------------------------------------------
(* setup.py: setup_company *)

SYSTEM_SETTINGS == "System Settings"
ERPNEXT_SETTINGS == "ERPNext Settings"
GLOBAL_DEFAULTS == "Global Defaults"
STOCK_SETTINGS == "Stock Settings"

\* json.loads(base64.b64decode(config_b64).decode()) of the inputs of the
\* model; any other input is not base64 of a JSON object, and decoding raises.
SetupInputs ==
    [acme_b64 |->
        [company_name |-> "Acme", company_abbr |-> "AC", country |-> "India",
         currency |-> "INR", fy_name |-> "2026-2027",
         fy_start_date |-> "2026-04-01", fy_end_date |-> "2027-03-31"],
     globex_b64 |->
        [company_name |-> "Globex", company_abbr |-> "GX",
         country |-> "United States", currency |-> "USD",
         chart_of_accounts |-> "Standard with Numbers", fy_name |-> "2026",
         fy_start_date |-> "2026-01-01", fy_end_date |-> "2026-12-31"],
     no_currency_b64 |->
        [company_name |-> "Acme", company_abbr |-> "AC", country |-> "India",
         fy_name |-> "2026-2027",
         fy_start_date |-> "2026-04-01", fy_end_date |-> "2027-03-31"]]

NOT_BASE64 == "%%%"

SetupArgs == DOMAIN SetupInputs \cup {NOT_BASE64}

\* The keys setup_company reads with config[...].
SetupKeys == {"company_name", "company_abbr", "country", "currency", "fy_name",
              "fy_start_date", "fy_end_date"}

\* The exception the decoding lines raise, "" when they raise none.
setup_decode_error(b64) ==
    IF b64 \notin DOMAIN SetupInputs THEN "binascii.Error"
    ELSE IF ~(SetupKeys \subseteq DOMAIN SetupInputs[b64]) THEN "KeyError"
    ELSE ""

\* The framework calls of setup_company that can raise, in the order made.
SetupFaults ==
    {"none", "config_read", "config_write", "system_settings", "installed_app",
     "home_page", "warehouse_type", "company_insert", "company_defaults",
     "fiscal_year_insert", "fiscal_year_default", "erpnext_settings",
     "global_defaults", "stock_settings", "clear_cache", "verify"}

WAREHOUSE_TYPES == {"Transit", "Stores", "Goods In Transit", "Virtual"}

\* The part of the site setup_company works on.
Site ==
    [cache |-> cache, siteConfig |-> siteConfig, singles |-> singles,
     installedApps |-> installedApps, defaults |-> defaults,
     warehouseTypes |-> warehouseTypes, companies |-> companies,
     fiscalYears |-> fiscalYears]

\* Step 1 writing a file that holds the setup_complete key alone.
step_site_config_overwrite(s) ==
    [s EXCEPT !.siteConfig = [k \in {"setup_complete"} |-> 1]]

\* Step 1: setup_complete = 1 in site_config.json.
step_site_config(s) ==
    [s EXCEPT !.siteConfig = DictSet(s.siteConfig, "setup_complete", 1)]

\* Step 2: System Settings.
step_system_settings(s, cfg) ==
    [s EXCEPT !.singles[SYSTEM_SETTINGS] =
        [setup_complete |-> 1, enable_onboarding |-> 0, country |-> cfg.country,
         language |-> "en", time_zone |-> "Asia/Kolkata"]]

\* Step 2b: the Installed Application rows that exist.
step_installed_apps(s) ==
    [s EXCEPT !.installedApps =
        [a \in DOMAIN s.installedApps |->
            IF a \in {"frappe", "erpnext"} THEN 1 ELSE s.installedApps[a]]]

\* Step 2c: the desktop home page.
step_home_page(s) ==
    [s EXCEPT !.defaults = DictSet(s.defaults, "desktop:home_page", "home")]

\* Step 3: the Warehouse Types that do not exist yet.
step_warehouse_types(s) ==
    [s EXCEPT !.warehouseTypes = s.warehouseTypes \cup WAREHOUSE_TYPES]

\* frappe.db.exists("Company", name)
company_exists(s, name) == name \in s.companies

\* frappe.db.exists("Fiscal Year", name) answering "no" whatever is stored.
fiscal_year_exists_never(s, name) == FALSE

\* frappe.db.exists("Fiscal Year", name)
fiscal_year_exists(s, name) == name \in s.fiscalYears

\* Step 4, company.insert on the branch that found no Company.
step_company_insert(s, cfg) ==
    IF company_exists(s, cfg.company_name) THEN s
    ELSE [s EXCEPT !.companies = s.companies \cup {cfg.company_name}]

\* insert raises DuplicateEntryError for a name that is stored.
company_insert_duplicate(s, cfg) ==
    ~company_exists(s, cfg.company_name) /\ cfg.company_name \in s.companies

\* Step 4, the three defaults both branches set.
step_company_defaults(s, cfg) ==
    [s EXCEPT !.defaults =
        DictSet(DictSet(DictSet(s.defaults, "company", cfg.company_name),
                        "country", cfg.country),
                "currency", cfg.currency)]

\* Step 5, fy.insert on the branch that found no Fiscal Year.
step_fiscal_year_insert(s, cfg) ==
    IF fiscal_year_exists(s, cfg.fy_name) THEN s
    ELSE [s EXCEPT !.fiscalYears = s.fiscalYears \cup {cfg.fy_name}]

\* insert raises DuplicateEntryError for a name that is stored.
fiscal_year_insert_duplicate(s, cfg) ==
    ~fiscal_year_exists(s, cfg.fy_name) /\ cfg.fy_name \in s.fiscalYears

\* Step 5, the default both branches set.
step_fiscal_year_default(s, cfg) ==
    [s EXCEPT !.defaults = DictSet(s.defaults, "fiscal_year", cfg.fy_name)]

\* Steps 6 to 8 each update a single doctype if that doctype exists, and only
\* warn when the update raises.
step_erpnext_settings(s, fault) ==
    IF ERPNEXT_SETTINGS \in DOMAIN s.singles /\ fault # "erpnext_settings"
    THEN [s EXCEPT !.singles[ERPNEXT_SETTINGS] =
             DictSet(s.singles[ERPNEXT_SETTINGS], "setup_complete", 1)]
    ELSE s

step_global_defaults(s, cfg, fault) ==
    IF GLOBAL_DEFAULTS \in DOMAIN s.singles /\ fault # "global_defaults"
    THEN [s EXCEPT !.singles[GLOBAL_DEFAULTS] =
             [default_company |-> cfg.company_name,
              current_fiscal_year |-> cfg.fy_name,
              country |-> cfg.country,
              default_currency |-> cfg.currency]]
    ELSE s

step_stock_settings(s, fault) ==
    IF STOCK_SETTINGS \in DOMAIN s.singles /\ fault # "stock_settings"
    THEN [s EXCEPT !.singles[STOCK_SETTINGS] =
             DictSet(s.singles[STOCK_SETTINGS], "stock_uom", "Nos")]
    ELSE s

\* Step 9: frappe.clear_cache() deletes the keys of the site.
step_clear_cache(s) == [s EXCEPT !.cache = EmptyDict]

\* The handler undoing what the call did before it failed.
setup_failed_rollback(before, now, e, printed) ==
    [site |-> before, out |-> printed \cup {"SETUP_FAILED"},
     ret |-> [raised |-> FALSE, success |-> FALSE, message |-> e]]

\* `except Exception as e`: the failure is printed and returned; the site
\* stays as the call left it.
setup_failed(before, now, e, printed) ==
    [site |-> now, out |-> printed \cup {"SETUP_FAILED"},
     ret |-> [raised |-> FALSE, success |-> FALSE, message |-> e]]

\* setup_company(config_b64) with the call `fault` raising: [site, out, ret].
\* A raising call leaves nothing of its step behind.
setup_company(s, b64, fault) ==
    IF setup_decode_error(b64) # ""
    THEN setup_failed(s, s, setup_decode_error(b64), {})
    ELSE
    LET cfg == SetupInputs[b64]
        s1 == step_site_config(s)
        s2 == step_system_settings(s1, cfg)
        s2b == step_installed_apps(s2)
        s2c == step_home_page(s2b)
        s3 == step_warehouse_types(s2c)
        creates == ~company_exists(s3, cfg.company_name)
        s4a == step_company_insert(s3, cfg)
        s4 == step_company_defaults(s4a, cfg)
        out4 == {IF creates THEN "Company created" ELSE "Company already exists"}
        createsFy == ~fiscal_year_exists(s4, cfg.fy_name)
        s5a == step_fiscal_year_insert(s4, cfg)
        s5 == step_fiscal_year_default(s5a, cfg)
        out5 == out4 \cup {IF createsFy THEN "Fiscal Year created"
                                        ELSE "Fiscal Year exists"}
        s6 == step_erpnext_settings(s5, fault)
        s7 == step_global_defaults(s6, cfg, fault)
        s8 == step_stock_settings(s7, fault)
        s9 == step_clear_cache(s8)
    IN  IF fault \in {"config_read", "config_write"}
            THEN setup_failed(s, s, fault, {})
        ELSE IF fault = "system_settings" THEN setup_failed(s, s1, fault, {})
        ELSE IF fault = "installed_app" THEN setup_failed(s, s2, fault, {})
        ELSE IF fault = "home_page" THEN setup_failed(s, s2b, fault, {})
        ELSE IF fault = "warehouse_type" THEN setup_failed(s, s2c, fault, {})
        ELSE IF creates /\ fault = "company_insert"
            THEN setup_failed(s, s3, fault, {})
        ELSE IF company_insert_duplicate(s3, cfg)
            THEN setup_failed(s, s3, "DuplicateEntryError", {})
        ELSE IF fault = "company_defaults" THEN setup_failed(s, s4a, fault, {})
        ELSE IF createsFy /\ fault = "fiscal_year_insert"
            THEN setup_failed(s, s4, fault, out4)
        ELSE IF fiscal_year_insert_duplicate(s4, cfg)
            THEN setup_failed(s, s4, "DuplicateEntryError", out4)
        ELSE IF fault = "fiscal_year_default"
            THEN setup_failed(s, s5a, fault, out4)
        ELSE IF fault = "clear_cache" THEN setup_failed(s, s8, fault, out5)
        ELSE IF fault = "verify" THEN setup_failed(s, s9, fault, out5)
        ELSE IF company_exists(s9, cfg.company_name)
            THEN [site |-> s9, out |-> out5 \cup {"SETUP_SUCCESS"},
                  ret |-> [raised |-> FALSE, success |-> TRUE,
                           message |-> cfg.company_name]]
        ELSE [site |-> s9, out |-> out5 \cup {"SETUP_FAILED"},
              ret |-> [raised |-> FALSE, success |-> FALSE,
                       message |-> "not found after creation"]]

\* Whether the call `fault` is made at all by setup_company(b64) on `s`.
setup_fault_occurs(s, b64, fault) ==
    \/ fault = "none"
    \/ /\ setup_decode_error(b64) = ""
       /\ fault = "company_insert" => ~company_exists(s, SetupInputs[b64].company_name)
       /\ fault = "fiscal_year_insert" => ~fiscal_year_exists(s, SetupInputs[b64].fy_name)
       /\ fault = "erpnext_settings" => ERPNEXT_SETTINGS \in DOMAIN s.singles
       /\ fault = "global_defaults" => GLOBAL_DEFAULTS \in DOMAIN s.singles
       /\ fault = "stock_settings" => STOCK_SETTINGS \in DOMAIN s.singles

-----------------------------------------------------------------------------
(* setup.py: create_user *)

SYSTEM_MANAGER == "System Manager"

\* The decoded inputs of the model, as for setup_company.
UserInputs ==
    [ann_b64 |->
        [email |-> "ann@tenant.io", first_name |-> "Ann", last_name |-> "Lee",
         password |-> "secret-1"],
     ann_reset_b64 |-> [email |-> "ann@tenant.io", password |-> "secret-2"],
     bob_b64 |-> [email |-> "bob@tenant.io", first_name |-> "Bob",
                  password |-> "secret-1"],
     no_password_b64 |-> [email |-> "ann@tenant.io", first_name |-> "Ann"]]

UserArgs == DOMAIN UserInputs \cup {NOT_BASE64}

\* The exception the decoding lines raise, "" when they raise none.
user_decode_error(b64) ==
    IF b64 \notin DOMAIN UserInputs THEN "binascii.Error"
    ELSE IF ~({"email", "password"} \subseteq DOMAIN UserInputs[b64]) THEN "KeyError"
    ELSE ""

\* The framework calls of create_user that can raise.
UserFaults == {"none", "exists", "update_password", "add_roles", "save",
               "insert", "admin_password"}

\* The part of the site create_user works on.
Accounts == [users |-> users, auth |-> auth]

\* update_password(user, password)
update_password(a, user, password) ==
    [a EXCEPT !.auth = DictSet(a.auth, user, password)]

\* user.insert of the new System User
insert_user(a, email) ==
    [a EXCEPT !.users = DictSet(a.users, email,
                            [enabled |-> 1, user_type |-> SYSTEM_USER, roles |-> {}])]

\* user.add_roles(role): the role is appended and the document saved.
add_roles(a, email, enabled, role) ==
    [a EXCEPT !.users[email] =
        [a.users[email] EXCEPT !.enabled = enabled, !.roles = @ \cup {role}]]

\* user.save() of the fetched document with enabled = 1
save_enabled(a, email) == [a EXCEPT !.users[email].enabled = 1]

\* `except Exception as e` of create_user
user_failed(now, e) ==
    [accounts |-> now, out |-> {"USER_FAILED"},
     ret |-> [raised |-> FALSE, success |-> FALSE, message |-> e]]

\* The branch of create_user for a user that exists: it returns before the
\* Administrator password is reached.
update_existing_user(a, cfg, fault) ==
    LET a1 == update_password(a, cfg.email, cfg.password)
        hasRole == SYSTEM_MANAGER \in a.users[cfg.email].roles
        a2 == IF hasRole THEN a1 ELSE add_roles(a1, cfg.email, 1, SYSTEM_MANAGER)
        a3 == save_enabled(a2, cfg.email)
    IN  IF fault = "update_password" THEN user_failed(a, fault)
        ELSE IF ~hasRole /\ fault = "add_roles" THEN user_failed(a1, fault)
        ELSE IF fault = "save" THEN user_failed(a2, fault)
        ELSE [accounts |-> a3, out |-> {"USER_SUCCESS"},
              ret |-> [raised |-> FALSE, success |-> TRUE, message |-> "updated"]]

\* The branch of create_user for a new user, and the Administrator password
\* after it; a failure to set that password is only warned about.
create_new_user(a, cfg, fault) ==
    LET a1 == insert_user(a, cfg.email)
        a2 == update_password(a1, cfg.email, cfg.password)
        a3 == add_roles(a2, cfg.email, 1, SYSTEM_MANAGER)
        a4 == IF fault = "admin_password" THEN a3
              ELSE update_password(a3, "Administrator", cfg.password)
    IN  IF fault = "insert" THEN user_failed(a, fault)
        ELSE IF fault = "update_password" THEN user_failed(a1, fault)
        ELSE IF fault = "add_roles" THEN user_failed(a2, fault)
        ELSE [accounts |-> a4, out |-> {"USER_SUCCESS"},
              ret |-> [raised |-> FALSE, success |-> TRUE,
                       message |-> "created/updated"]]

\* create_user(config_b64) with the call `fault` raising: [accounts, out, ret]
create_user(a, b64, fault) ==
    IF user_decode_error(b64) # "" THEN user_failed(a, user_decode_error(b64))
    ELSE IF fault = "exists" THEN user_failed(a, fault)
    ELSE IF UserInputs[b64].email \in DOMAIN a.users
        THEN update_existing_user(a, UserInputs[b64], fault)
    ELSE create_new_user(a, UserInputs[b64], fault)

\* Whether the call `fault` is made at all by create_user(b64) on `a`.
user_fault_occurs(a, b64, fault) ==
    \/ fault = "none"
    \/ /\ user_decode_error(b64) = ""
       /\ LET email == UserInputs[b64].email
              exists == email \in DOMAIN a.users
          IN  /\ fault = "insert" => ~exists
              /\ fault = "save" => exists
              /\ fault = "admin_password" => ~exists
              /\ fault = "add_roles" =>
                    (exists => SYSTEM_MANAGER \notin a.users[email].roles)

-----------------------------------------------------------------------------
(* The state of a site before any request *)

\* A site with every single doctype and both Installed Application rows, and
\* one without the ERPNext Settings doctype and the erpnext row.
FreshSingles ==
    {[d \in {SYSTEM_SETTINGS, ERPNEXT_SETTINGS, GLOBAL_DEFAULTS, STOCK_SETTINGS}
        |-> EmptyDict],
     [d \in {SYSTEM_SETTINGS, GLOBAL_DEFAULTS, STOCK_SETTINGS} |-> EmptyDict]}

FreshApps(s) ==
    IF ERPNEXT_SETTINGS \in DOMAIN s
    THEN [a \in {"frappe", "erpnext"} |-> 0]
    ELSE [a \in {"frappe"} |-> 0]

Init ==
    /\ cache = EmptyDict
    /\ siteConfig = [db_name |-> "tenant_db"]
    /\ users = [n \in BuiltinUsers |->
                  [enabled |-> 1,
                   user_type |-> IF n = "Guest" THEN WEBSITE_USER ELSE SYSTEM_USER,
                   roles |-> {n}]]
    /\ auth = [n \in {"Administrator"} |-> "initial-secret"]
    /\ customers = {}
    /\ suppliers = {}
    /\ companies = {}
    /\ invoices = EmptyDict
    /\ today = <<1, 1>>
    /\ singles \in FreshSingles
    /\ installedApps = FreshApps(singles)
    /\ defaults = [k \in {"desktop:home_page"} |-> "setup-wizard"]
    /\ warehouseTypes = {}
    /\ fiscalYears = {}
    /\ synced = EmptyDict
    /\ last = [op |-> "init", arg |-> EmptyDict, ret |-> EmptyDict]

-----------------------------------------------------------------------------
(* Requests: the two endpoints of usage_limits.py *)

SyncPlanLimits(args, fault) ==
    LET r == sync_plan_limits(cache, siteConfig, args, fault)
    IN  /\ cache' = r.cache
        /\ siteConfig' = r.conf
        /\ synced' = IF r.ret.success THEN r.ret.limits ELSE synced
        /\ last' = [op |-> "sync_plan_limits", arg |-> EmptyDict, ret |-> r.ret,
                    fault |-> fault]
        /\ UNCHANGED <<userVars, partyVars, invoiceVars, setupVars>>

GetCurrentLimits(fault) ==
    LET r == get_current_limits(cache, siteConfig, fault)
    IN  /\ cache' = r.cache
        /\ last' = [op |-> "get_current_limits", arg |-> EmptyDict, ret |-> r.ret,
                    fault |-> fault]
        /\ UNCHANGED <<siteConfig, synced, userVars, partyVars, invoiceVars, setupVars>>

-----------------------------------------------------------------------------
(* Requests: the two jobs of setup.py *)

SetupCompany(b64, fault) ==
    LET r == setup_company(Site, b64, fault)
    IN  /\ setup_fault_occurs(Site, b64, fault)
        /\ cache' = r.site.cache
        /\ siteConfig' = r.site.siteConfig
        /\ singles' = r.site.singles
        /\ installedApps' = r.site.installedApps
        /\ defaults' = r.site.defaults
        /\ warehouseTypes' = r.site.warehouseTypes
        /\ companies' = r.site.companies
        /\ fiscalYears' = r.site.fiscalYears
        /\ last' = [op |-> "setup_company", arg |-> b64, ret |-> r.ret,
                    fault |-> fault, out |-> r.out]
        /\ UNCHANGED <<synced, userVars, customers, suppliers, invoiceVars>>

CreateUser(b64, fault) ==
    LET r == create_user(Accounts, b64, fault)
    IN  /\ user_fault_occurs(Accounts, b64, fault)
        /\ users' = r.accounts.users
        /\ auth' = r.accounts.auth
        /\ last' = [op |-> "create_user", arg |-> b64, ret |-> r.ret,
                    fault |-> fault, out |-> r.out]
        /\ UNCHANGED <<quotaVars, partyVars, invoiceVars, setupVars>>

NextSetup ==
    \/ \E b \in SetupArgs, f \in SetupFaults : SetupCompany(b, f)

SpecSetup == Init /\ [][NextSetup]_vars

-----------------------------------------------------------------------------
(* Document saves: the framework runs the doctype's validator, and stores   *)
(* the document when the validator returns.                                 *)

Restrict(f, keep) == [k \in keep |-> f[k]]

SaveUser(name, enabled, user_type) ==
    LET doc == [name |-> name, enabled |-> enabled, user_type |-> user_type]
        isNew == name \notin DOMAIN users
        limits == get_plan_limits(cache, siteConfig)
        raised == validate_user_limit(doc, limits, users)
    IN  /\ name \in BuiltinUsers =>
              enabled = users[name].enabled /\ user_type = users[name].user_type
        /\ MayStore(isNew, raised)
        /\ cache' = IF validate_user_limit_reads(doc)
                    THEN get_plan_limits_cache(cache, siteConfig)
                    ELSE cache
        /\ users' = IF raised THEN users
                    ELSE DictSet(users, name,
                                 [enabled |-> enabled, user_type |-> user_type,
                                  roles |-> IF isNew THEN {} ELSE users[name].roles])
        /\ last' = [op |-> "save_user", arg |-> doc, ret |-> [raised |-> raised]]
        /\ UNCHANGED <<siteConfig, synced, auth, partyVars, invoiceVars, setupVars>>

DeleteUser(name) ==
    /\ name \in DOMAIN users \ BuiltinUsers
    /\ users' = Restrict(users, DOMAIN users \ {name})
    /\ auth' = Restrict(auth, DOMAIN auth \ {name})
    /\ last' = [op |-> "delete_user", arg |-> EmptyDict, ret |-> EmptyDict]
    /\ UNCHANGED <<quotaVars, partyVars, invoiceVars, setupVars>>

SaveCustomer(name) ==
    LET doc == [name |-> name, is_new |-> name \notin customers]
        raised == validate_customer_limit(
                      doc, get_plan_limits(cache, siteConfig), customers)
    IN  /\ MayStore(doc.is_new, raised)
        /\ cache' = get_plan_limits_cache(cache, siteConfig)
        /\ customers' = IF raised THEN customers ELSE customers \cup {name}
        /\ last' = [op |-> "save_customer", arg |-> doc, ret |-> [raised |-> raised]]
        /\ UNCHANGED <<siteConfig, synced, userVars, suppliers, companies,
                       invoiceVars, setupVars>>

SaveSupplier(name) ==
    LET doc == [name |-> name, is_new |-> name \notin suppliers]
        raised == validate_supplier_limit(
                      doc, get_plan_limits(cache, siteConfig), suppliers)
    IN  /\ MayStore(doc.is_new, raised)
        /\ cache' = get_plan_limits_cache(cache, siteConfig)
        /\ suppliers' = IF raised THEN suppliers ELSE suppliers \cup {name}
        /\ last' = [op |-> "save_supplier", arg |-> doc, ret |-> [raised |-> raised]]
        /\ UNCHANGED <<siteConfig, synced, userVars, customers, companies,
                       invoiceVars, setupVars>>

SaveCompany(name) ==
    LET doc == [name |-> name, is_new |-> name \notin companies]
        raised == validate_company_limit(
                      doc, get_plan_limits(cache, siteConfig), companies)
    IN  /\ MayStore(doc.is_new, raised)
        /\ cache' = get_plan_limits_cache(cache, siteConfig)
        /\ companies' = IF raised THEN companies ELSE companies \cup {name}
        /\ last' = [op |-> "save_company", arg |-> doc, ret |-> [raised |-> raised]]
        /\ UNCHANGED <<siteConfig, synced, userVars, customers, suppliers,
                       invoiceVars, setupVars>>

DeleteCustomer(name) ==
    /\ name \in customers
    /\ customers' = customers \ {name}
    /\ last' = [op |-> "delete_customer", arg |-> EmptyDict, ret |-> EmptyDict]
    /\ UNCHANGED <<quotaVars, userVars, suppliers, companies, invoiceVars, setupVars>>

DeleteSupplier(name) ==
    /\ name \in suppliers
    /\ suppliers' = suppliers \ {name}
    /\ last' = [op |-> "delete_supplier", arg |-> EmptyDict, ret |-> EmptyDict]
    /\ UNCHANGED <<quotaVars, userVars, customers, companies, invoiceVars, setupVars>>

DeleteCompany(name) ==
    /\ name \in companies
    /\ companies' = companies \ {name}
    /\ last' = [op |-> "delete_company", arg |-> EmptyDict, ret |-> EmptyDict]
    /\ UNCHANGED <<quotaVars, userVars, customers, suppliers, invoiceVars, setupVars>>

\* The docstatus a save may give a document: a new one is saved as a draft
\* or submitted at once, a draft is saved or submitted, a submitted one is
\* updated or cancelled, a cancelled one stays cancelled.
NextDocstatus(inv, name) ==
    IF name \notin DOMAIN inv THEN {0, 1}
    ELSE IF inv[name].docstatus = 0 THEN {0, 1}
    ELSE IF inv[name].docstatus = 1 THEN {1, 2}
    ELSE {2}

SaveInvoice(name, docstatus, posting_date) ==
    LET doc == [name |-> name, docstatus |-> docstatus,
                posting_date |-> posting_date]
        isNew == name \notin DOMAIN invoices
        raised == validate_invoice_limit(
                      doc, get_plan_limits(cache, siteConfig), invoices, today)
    IN  /\ docstatus \in NextDocstatus(invoices, name)
        /\ (~isNew /\ invoices[name].docstatus # 0) =>
               posting_date = invoices[name].posting_date
        /\ MayStore(isNew, raised)
        /\ cache' = IF docstatus = 1
                    THEN get_plan_limits_cache(cache, siteConfig)
                    ELSE cache
        /\ invoices' = IF raised THEN invoices
                       ELSE DictSet(invoices, name,
                                    [docstatus |-> docstatus,
                                     posting_date |-> posting_date])
        /\ last' = [op |-> "save_invoice", arg |-> doc, ret |-> [raised |-> raised]]
        /\ UNCHANGED <<siteConfig, synced, userVars, partyVars, today, setupVars>>

\* The cache loses its entries (frappe.clear_cache, an eviction, a restart).
CacheCleared ==
    /\ cache # EmptyDict
    /\ cache' = EmptyDict
    /\ last' = [op |-> "cache_cleared", arg |-> EmptyDict, ret |-> EmptyDict]
    /\ UNCHANGED <<siteConfig, synced, userVars, partyVars, invoiceVars, setupVars>>

\* Time passes.
AdvanceDate(date) ==
    /\ DateLE(today, date) /\ date # today
    /\ today' = date
    /\ last' = [op |-> "advance_date", arg |-> EmptyDict, ret |-> EmptyDict]
    /\ UNCHANGED <<quotaVars, userVars, partyVars, invoices, setupVars>>

\* The calls of sync_plan_limits that give one of the limits `keys` a number
\* and leave the others at their default.
ArgsFor(keys) ==
    {a \in PlanArgs : /\ \A k \in LimitKeys \ keys : a[k] = ARG_DEFAULT
                      /\ \A k \in keys : a[k] = ARG_DEFAULT \/ IsNumeral(a[k])}

\* A site with ERPNext installed.
InitErpnext == Init /\ ERPNEXT_SETTINGS \in DOMAIN singles

NextUsers ==
    \/ \E n \in UserNames, e \in {0, 1}, t \in UserTypes : SaveUser(n, e, t)
    \/ \E n \in Emails : DeleteUser(n)
    \/ \E a \in ArgsFor({"max_users"}) : SyncPlanLimits(a, "none")
    \/ CacheCleared

SpecUsers == InitErpnext /\ [][NextUsers]_vars

NextParties ==
    \/ \E n \in DocNames : SaveCustomer(n)
    \/ \E n \in DocNames : SaveSupplier(n)
    \/ \E n \in CompanyNames : SaveCompany(n)
    \/ \E n \in DocNames : DeleteCustomer(n)
    \/ \E n \in DocNames : DeleteSupplier(n)
    \/ \E n \in CompanyNames : DeleteCompany(n)
    \/ \E a \in ArgsFor({"max_customers"}) \cup ArgsFor({"max_suppliers"})
                \cup ArgsFor({"max_companies"}) :
           SyncPlanLimits(a, "none")
    \/ CacheCleared

SpecParties == InitErpnext /\ [][NextParties]_vars

NextInvoices ==
    \/ \E n \in DocNames, s \in 0..2, d \in Dates : SaveInvoice(n, s, d)
    \/ \E d \in Dates : AdvanceDate(d)
    \/ \E a \in ArgsFor({"max_invoices_per_month"}) : SyncPlanLimits(a, "none")
    \/ CacheCleared

SpecInvoices == InitErpnext /\ [][NextInvoices]_vars

\* The two users the inputs of create_user name, created, saved and deleted.
NextBootstrap ==
    \/ \E b \in UserArgs, f \in UserFaults : CreateUser(b, f)
    \/ \E b \in DOMAIN UserInputs, e \in {0, 1} :
           SaveUser(UserInputs[b].email, e, SYSTEM_USER)
    \/ \E b \in DOMAIN UserInputs : DeleteUser(UserInputs[b].email)

SpecBootstrap == InitErpnext /\ [][NextBootstrap]_vars

\* The calls of sync_plan_limits that give at most the limits `keys`, with any
\* value.
ArgsAny(keys) == {a \in PlanArgs : \A k \in LimitKeys \ keys : a[k] = ARG_DEFAULT}

\* The four entry points, each with every call in it raising.
NextEntryPoints ==
    \/ \E b \in {"acme_b64", NOT_BASE64}, f \in SetupFaults : SetupCompany(b, f)
    \/ \E b \in {"ann_b64", "no_password_b64"}, f \in UserFaults : CreateUser(b, f)
    \/ \E a \in ArgsAny({"max_users"}), f \in SyncFaults : SyncPlanLimits(a, f)
    \/ \E f \in GetFaults : GetCurrentLimits(f)

SpecEntryPoints == InitErpnext /\ [][NextEntryPoints]_vars

\* Every validator, on the documents that can reach its quota: enabled
\* System Users, and invoices dated today.
NextValidators ==
    \/ \E n \in Emails : SaveUser(n, 1, SYSTEM_USER)
    \/ \E n \in DocNames : SaveCustomer(n)
    \/ \E n \in DocNames : SaveSupplier(n)
    \/ \E n \in CompanyNames : SaveCompany(n)
    \/ \E n \in DocNames : SaveInvoice(n, 1, today)
    \/ \E k \in LimitKeys : \E a \in ArgsFor({k}) :
           a[k] \in {ARG_DEFAULT, Digits[2]} /\ SyncPlanLimits(a, "none")

SpecValidators == InitErpnext /\ [][NextValidators]_vars

\* The two writers of site_config.json, one call at a time, each with its
\* file read or write failing or not.
NextSiteConfig ==
    \/ \E b \in {"acme_b64", NOT_BASE64} :
       \E f \in {"none", "config_read", "config_write", "company_insert"} :
           SetupCompany(b, f)
    \/ \E a \in ArgsAny({"max_users", "max_storage_gb"}), f \in SyncFaults :
           SyncPlanLimits(a, f)

SpecSiteConfig == InitErpnext /\ [][NextSiteConfig]_vars

-----------------------------------------------------------------------------
(* Properties of the validators *)

\* The limit the validators work with in this state.
EffectiveLimit(key) == LimitOf(get_plan_limits(cache, siteConfig), key)

\* Enabled System Users other than Administrator and Guest.
CountedUsers(us) ==
    {n \in DOMAIN us \ {"Administrator", "Guest"} :
        us[n].enabled = 1 /\ us[n].user_type = SYSTEM_USER}

\* C1: with max_users = M > 0, the save of a System User other than
\* Administrator and Guest is rejected exactly when the enabled System Users
\* other than Administrator, Guest and the document itself number M or more;
\* and a save that starts with at most M such users, under a limit it leaves
\* unchanged, ends with at most M.
C1_UserLimit ==
    [][last'.op = "save_user" =>
        LET doc == last'.arg
            M == EffectiveLimit("max_users")
            others == Cardinality(CountedUsers(users) \ {doc.name})
        IN  /\ (M > 0 /\ doc.user_type = SYSTEM_USER
                      /\ doc.name \notin {"Administrator", "Guest"})
                   => (last'.ret.raised <=> others >= M)
            /\ (M > 0 /\ EffectiveLimit("max_users")' = M
                      /\ Cardinality(CountedUsers(users)) <= M)
                   => Cardinality(CountedUsers(users')) <= M]_vars

\* C1: a user save was rejected at the largest limit, with that many users.
C1_Witness ==
    /\ last.op = "save_user"
    /\ last.ret.raised
    /\ EffectiveLimit("max_users") = MaxLimit
    /\ Cardinality(CountedUsers(users)) = MaxLimit
    /\ last.arg.name \notin DOMAIN users

PartyStep(op, key, names, namesAfter) ==
    LET M == EffectiveLimit(key)
        n == Cardinality(names)
    IN  /\ (last'.op = op /\ M > 0) =>
              /\ last'.arg.is_new => (last'.ret.raised <=> n >= M)
              /\ ~last'.arg.is_new => (last'.ret.raised <=> n - 1 >= M)
              /\ (~last'.arg.is_new /\ n <= M) => ~last'.ret.raised
        /\ (M > 0 /\ EffectiveLimit(key)' = M /\ n <= M)
              => Cardinality(namesAfter) <= M

\* C8: for Customer, Supplier and Company under a limit M > 0: a create is
\* rejected exactly when M or more records exist, an update exactly when M or
\* more other records exist, so never while the total is at most M; and no
\* step that leaves the limit unchanged takes the count from at most M to
\* more than M.
C8_PartyLimits ==
    [][/\ PartyStep("save_customer", "max_customers", customers, customers')
       /\ PartyStep("save_supplier", "max_suppliers", suppliers, suppliers')
       /\ PartyStep("save_company", "max_companies", companies, companies')]_vars

\* C8: the update of a customer passed with the customers at the largest
\* limit, beside a stored supplier.
C8_Witness ==
    /\ last.op = "save_customer"
    /\ ~last.arg.is_new
    /\ ~last.ret.raised
    /\ EffectiveLimit("max_customers") = MaxLimit
    /\ Cardinality(customers) = MaxLimit
    /\ Cardinality(suppliers) = 1

\* Submitted invoices other than `name` posted in today's month.
SubmittedThisMonth(name) ==
    {n \in DOMAIN invoices \ {name} :
        invoices[n].docstatus = 1 /\ invoices[n].posting_date[1] = today[1]}

\* C9: the save of an invoice is rejected exactly when the document is
\* submitted (docstatus 1), max_invoices_per_month = M > 0 and M or more
\* other submitted invoices are posted in the current month.
C9_InvoiceLimit ==
    [][last'.op = "save_invoice" =>
        LET M == EffectiveLimit("max_invoices_per_month")
        IN  last'.ret.raised <=>
               /\ last'.arg.docstatus = 1
               /\ M > 0
               /\ Cardinality(SubmittedThisMonth(last'.arg.name)) >= M]_vars

\* C9: a submit passed under a limit of 1 while another submitted invoice,
\* posted in another month, is stored.
C9_Witness ==
    /\ last.op = "save_invoice"
    /\ last.arg.docstatus = 1
    /\ ~last.ret.raised
    /\ EffectiveLimit("max_invoices_per_month") = 1
    /\ \E n \in DOMAIN invoices \ {last.arg.name} :
           invoices[n].docstatus = 1 /\ invoices[n].posting_date[1] # today[1]

\* The plan limits hold no `key`, or hold 0 for it.
Unlimited(key) ==
    LET limits == get_plan_limits(cache, siteConfig)
    IN  key \notin DOMAIN limits \/ limits[key] = 0

ValidatorKey ==
    [save_user |-> "max_users", save_customer |-> "max_customers",
     save_supplier |-> "max_suppliers", save_company |-> "max_companies",
     save_invoice |-> "max_invoices_per_month"]

\* C6: a validator whose limit is 0 or missing from the plan limits never
\* rejects a save.
C6_ZeroIsUnlimited ==
    [][\A op \in DOMAIN ValidatorKey :
          (last'.op = op /\ Unlimited(ValidatorKey[op])) => ~last'.ret.raised]_vars

\* C6: a supplier was stored beside others with max_suppliers 0, while
\* another limit of the plan is not 0.
C6_Witness ==
    /\ last.op = "save_supplier"
    /\ ~last.ret.raised
    /\ Cardinality(suppliers) > 1
    /\ "max_suppliers" \in DOMAIN get_plan_limits(cache, siteConfig)
    /\ Unlimited("max_suppliers")
    /\ ~Unlimited("max_customers")

-----------------------------------------------------------------------------
(* Properties of the entry points *)

EntryPoints == {"setup_company", "create_user", "sync_plan_limits",
                "get_current_limits"}

\* C2: no call of an entry point lets an exception reach its caller.
C2_CatchAll == last.op \in EntryPoints => ~last.ret.raised

\* The calls of setup_company after which each step's effect is in place.
AfterSiteConfig == SetupFaults \ {"none", "config_read", "config_write"}
AfterSystemSettings == AfterSiteConfig \ {"system_settings"}
AfterWarehouseTypes ==
    AfterSystemSettings \ {"installed_app", "home_page", "warehouse_type"}
AfterCompany == AfterWarehouseTypes \ {"company_insert"}

\* C3: a setup_company call that fails undoes nothing: what its steps wrote
\* before the call that raised is in place when it returns success = False,
\* and the Company it did not get to insert does not exist.
C3_NoRollback ==
    [][(/\ last'.op = "setup_company"
        /\ ~last'.ret.success
        /\ last'.ret.message \in SetupFaults) =>
        LET e == last'.ret.message
            cfg == SetupInputs[last'.arg]
        IN  /\ e \in AfterSiteConfig =>
                  DictGet(siteConfig', "setup_complete", 0) = 1
            /\ e \in AfterSystemSettings =>
                  DictGet(singles'[SYSTEM_SETTINGS], "setup_complete", 0) = 1
            /\ e \in AfterWarehouseTypes => WAREHOUSE_TYPES \subseteq warehouseTypes'
            /\ e \in AfterCompany => cfg.company_name \in companies'
            /\ e = "company_insert" => cfg.company_name \notin companies'
            /\ e = "fiscal_year_insert" => cfg.fy_name \notin fiscalYears']_vars

\* C3: setup_company returned a failure and left setup_complete = 1 in
\* site_config.json and System Settings and the warehouse types, with no
\* Company and no Fiscal Year.
C3_Witness ==
    /\ last.op = "setup_company"
    /\ ~last.ret.success
    /\ DictGet(siteConfig, "setup_complete", 0) = 1
    /\ DictGet(singles[SYSTEM_SETTINGS], "setup_complete", 0) = 1
    /\ WAREHOUSE_TYPES \subseteq warehouseTypes
    /\ companies = {}
    /\ fiscalYears = {}

\* C4: once sync_plan_limits has succeeded, a get_current_limits call that
\* returns gives the limits of the last successful sync.
C4_ReadsWhatSyncWrote ==
    (last.op = "get_current_limits" /\ ~last.ret.raised /\ Truthy(synced)) =>
        last.ret.success /\ last.ret.limits = synced

\* C5: when sync_plan_limits returns success with limits L, the cache entry
\* and the saas_plan_limits key of site_config.json both hold L.
C5_CacheAndConfigAgree ==
    (last.op = "sync_plan_limits" /\ last.ret.success) =>
        /\ cache_get_value(cache, LIMITS_CACHE_KEY) = last.ret.limits
        /\ DictGet(siteConfig, "saas_plan_limits", EmptyDict) = last.ret.limits

\* A second setup_company call with the arguments of the one that has just
\* succeeded, no call raising in it.
SecondSetup == setup_company(Site, last.arg, "none")

\* The second call succeeds, finds the Company and the Fiscal Year, and leaves
\* the records, the defaults, site_config.json, the Installed Application rows
\* and System Settings as they are.
SecondSetupKeeps ==
    /\ SecondSetup.ret.success
    /\ SecondSetup.out = {"Company already exists", "Fiscal Year exists",
                          "SETUP_SUCCESS"}
    /\ SecondSetup.site.companies = companies
    /\ SecondSetup.site.fiscalYears = fiscalYears
    /\ SecondSetup.site.warehouseTypes = warehouseTypes
    /\ SecondSetup.site.defaults = defaults
    /\ SecondSetup.site.siteConfig = siteConfig
    /\ SecondSetup.site.installedApps = installedApps
    /\ SecondSetup.site.singles[SYSTEM_SETTINGS] = singles[SYSTEM_SETTINGS]

C10_AdminPasswordSet ==
    (last.op = "create_user" /\ last.ret.success) =>
        LET cfg == UserInputs[last.arg]
        IN  /\ cfg.email \in DOMAIN users
            /\ users[cfg.email].enabled = 1
            /\ SYSTEM_MANAGER \in users[cfg.email].roles
            /\ last.fault # "admin_password" =>
                   auth["Administrator"] = cfg.password

\* site_config.json after a call differs from the file before it at most in
\* `key`.
OnlyKeyChanged(before, after, key) ==
    /\ DOMAIN after \subseteq DOMAIN before \cup {key}
    /\ \A k \in DOMAIN before \ {key} : k \in DOMAIN after /\ after[k] = before[k]

\* The sync_plan_limits call recorded in `l` wrote its limits to the file:
\* it returned success and neither reading nor writing the file failed.
Persisted(l) ==
    /\ l.op = "sync_plan_limits"
    /\ l.ret.success
    /\ l.fault \notin {"config_read", "config_write"}

====
